---- MODULE Spec2Model ----
(***************************************************************************)
(* The itinerary builder of sojou (src/lib/itinerary.ts), modelled as the  *)
(* loop it runs: anchors and days are set up, the activities are sorted by *)
(* priority, and every loop iteration scores the days, tries to place one  *)
(* activity and pushes it to overflow when the placement fails.            *)
(*                                                                         *)
(* Two call frames run buildItinerary on the same arguments, interleaved   *)
(* at loop-iteration granularity; they share only the module-level         *)
(* BLOCK_CAPACITY table.                                                   *)
(*                                                                         *)
(* The trip store (the create() call at lines 375-487 of                   *)
(* src/scripts/score-photos.ts) is the second machine: its operations      *)
(* change the selection, call buildItinerary through regenerate, and read  *)
(* and write AsyncStorage asynchronously.                                  *)
(*                                                                         *)
(* Numbers: the code computes priorities with durationMins / 10 and day    *)
(* scores with used / 60. The model keeps them in the integers by          *)
(* returning 10 * priority and 60 * score; both are only ever compared, so *)
(* the order is the code's. Durations of the catalog are multiples of 30,  *)
(* for which the code's floating-point sums are exact.                     *)
(***************************************************************************)
EXTENDS Integers, Sequences, FiniteSets, TLC

\* ------------------------------------------------------------------ bounds
MaxActs == 3
MaxDays == 2

Frames == {1, 2}

\* store operations called in one run
MaxOps == 4

\* daysCount values handed to buildItinerary: negative, zero, and positive
DaysCounts == (-1)..MaxDays

\* ------------------------------------------------------------- data types
\* DayBlock (itinerary.ts line 3)
DayBlock == {"morning", "afternoon", "evening"}

\* An optional field is a sequence of length <= 1: <<>> is "absent".
Absent == <<>>
Some(v) == <<v>>

\* Activity (types/activity.ts): the fields the builder reads
Act(id, cat, dur, nb, ow, mb, pop) ==
  [id |-> id, category |-> cat, durationMins |-> dur, neighborhood |-> nb,
   openWindows |-> ow, mustBook |-> mb, popularity |-> pop]

\* The activities inputs are drawn from. Categories cover every case of the
\* switch in preferredBlocks (and one outside the enumeration); optional
\* fields appear absent, present-and-falsy and present. Priorities tie for
\* a3 and a5 (68) and for a6 and a7 (74).
Catalog ==
  << Act("a1", "culture",  90,  "Bastille",   Some(<<>>),                      Absent,      Absent),
     Act("a2", "food",     180, "Marais",     Absent,                          Some(TRUE),  Absent),
     Act("a3", "night",    180, "Marais",     Some(<<"evening">>),             Absent,      Absent),
     Act("a4", "nature",   240, "Montmartre", Absent,                          Absent,      Some(0)),
     Act("a5", "shopping", 270, "Montmartre", Absent,                          Absent,      Some(41)),
     Act("a6", "culture",  240, "Bastille",   Absent,                          Absent,      Absent),
     Act("a7", "food",     120, "Bastille",   Some(<<"morning", "evening">>),  Some(FALSE), Some(62)),
     Act("a8", "tour",     0,   "Marais",     Absent,                          Absent,      Some(50)) >>

CatalogSet == {Catalog[i] : i \in 1..Len(Catalog)}

Range(s) == {s[i] : i \in 1..Len(s)}

\* lists of pairwise-distinct catalog activities, at most n long
RECURSIVE DistinctSeqs(_)
DistinctSeqs(n) ==
  IF n = 0 THEN {<<>>}
  ELSE LET shorter == DistinctSeqs(n - 1)
       IN shorter \cup
          {Append(p[1], p[2]) :
             p \in {q \in shorter \X CatalogSet :
                      Len(q[1]) = n - 1 /\ q[2] \notin Range(q[1])}}

Inputs == DistinctSeqs(MaxActs)

\* ------------------------------------------------------------------ state
VARIABLES
  selected,        \* the activity list both frames are called with
  daysCount,       \* the day count both frames are called with
  BLOCK_CAPACITY,  \* the module-level capacity table (itinerary.ts 17-21)
  pc,              \* per frame: "idle", "loop", "done" or "threw"
  days,            \* per frame: the ItineraryDay list
  sorted,          \* per frame: the priority-sorted copy of selected
  overflow,        \* per frame: the overflow list
  idx,             \* per frame: position of the for-of loop in sorted
  log              \* per frame: history of the loop iterations

\* the trip store (tripStore.ts) and what is in flight around it
VARIABLES
  config,          \* TripConfig
  deck,            \* Activity[]
  addedIds,        \* Set<string>
  savedIds,        \* Set<string>
  passedIds,       \* Set<string>
  itinerary,       \* ItineraryDay[]
  tripOverflow,    \* the store's overflow: Activity[]
  storage,         \* AsyncStorage under STORAGE_KEY: Absent or Some(JSON payload)
  requests,        \* getItem and setItem calls AsyncStorage has not served yet,
                   \* oldest first
  ops              \* number of store operations called so far

frameVars == <<selected, daysCount, BLOCK_CAPACITY, pc, days, sorted, overflow, idx, log>>

storeVars == <<config, deck, addedIds, savedIds, passedIds, itinerary, tripOverflow,
               storage, requests, ops>>

vars == <<frameVars, storeVars>>

\* ------------------------------------------------------ itinerary.ts code
\* BLOCK_CAPACITY as the module sets it (lines 17-21)
InitialCapacity == [morning |-> 180, afternoon |-> 240, evening |-> 180]

defaultBlocks(a) ==
  CASE a.category = "food"    -> <<"evening", "afternoon", "morning">>
    [] a.category = "culture" -> <<"morning", "afternoon", "evening">>
    [] a.category = "nature"  -> <<"afternoon", "morning", "evening">>
    [] a.category = "night"   -> <<"evening", "afternoon", "morning">>
    [] OTHER                  -> <<"afternoon", "morning", "evening">>

\* preferredBlocks without line 24: the category decides alone
preferredBlocks_ignoreWindows(a) == defaultBlocks(a)

\* preferredBlocks with line 24 reduced to "if (a.openWindows)": an empty
\* list is returned as it is
preferredBlocks_emptyWindows(a) ==
  IF a.openWindows # Absent THEN a.openWindows[1] ELSE defaultBlocks(a)

\* preferredBlocks (lines 23-38)
preferredBlocks(a) ==
  IF a.openWindows # Absent /\ Len(a.openWindows[1]) > 0 THEN a.openWindows[1]
  ELSE defaultBlocks(a)

\* Array.prototype.sort with a comparator "key(y) - key(x)": descending by
\* key, and stable, so elements of equal key keep their relative order.
\* keys[i] is the key of s[i]. The element at position i lands behind every
\* element of greater key and behind the earlier elements of equal key.
StableSortDesc(s, keys) ==
  LET rank(i) == 1 + Cardinality({j \in 1..Len(s) :
                        keys[j] > keys[i] \/ (keys[j] = keys[i] /\ j < i)})
  IN [r \in 1..Len(s) |-> s[CHOOSE i \in 1..Len(s) : rank(i) = r]]

\* Array.prototype.slice(0, end), end possibly negative or past the length
Slice0(s, end) ==
  LET e == IF end < 0 THEN (IF Len(s) + end < 0 THEN 0 ELSE Len(s) + end)
           ELSE (IF end > Len(s) THEN Len(s) ELSE end)
  IN SubSeq(s, 1, e)

\* the Map of lines 41-42: <<neighborhood, count>> entries in insertion
\* order, i.e. in order of first appearance
RECURSIVE neighborhoodCounts(_)
neighborhoodCounts(activities) ==
  IF activities = <<>> THEN <<>>
  ELSE LET rest == neighborhoodCounts(SubSeq(activities, 1, Len(activities) - 1))
           n == activities[Len(activities)].neighborhood
       IN IF \E i \in 1..Len(rest) : rest[i][1] = n
          THEN [i \in 1..Len(rest) |->
                  IF rest[i][1] = n THEN <<n, rest[i][2] + 1>> ELSE rest[i]]
          ELSE Append(rest, <<n, 1>>)

\* comparator of line 44: y[1] - x[1], descending by count
entryCount(e) == e[2]

\* topNeighborhoodAnchors without the sort of line 44: the Map's insertion
\* order is sliced as it is
topNeighborhoodAnchors_unsorted(activities, n) ==
  LET ranked == Slice0(neighborhoodCounts(activities), n)
  IN [i \in 1..Len(ranked) |-> ranked[i][1]]

\* topNeighborhoodAnchors (lines 40-47)
topNeighborhoodAnchors(activities, n) ==
  LET counts == neighborhoodCounts(activities)
      ranked == Slice0(StableSortDesc(counts, [i \in 1..Len(counts) |-> entryCount(counts[i])]), n)
  IN [i \in 1..Len(ranked) |-> ranked[i][1]]

\* the comparator with "a.popularity || 50" for "a.popularity ?? 50": an
\* explicit popularity of 0 counts as 50
priority10_truthyPopularity(a) ==
  10 * (IF a.popularity = Absent \/ a.popularity[1] = 0 THEN 50 ELSE a.popularity[1])
  + (IF a.mustBook # Absent /\ a.mustBook[1] THEN 150 ELSE 0)
  + a.durationMins

\* the comparator's ap / bp (lines 105-106), times 10
priority10(a) ==
  10 * (IF a.popularity = Absent THEN 50 ELSE a.popularity[1])
  + (IF a.mustBook # Absent /\ a.mustBook[1] THEN 150 ELSE 0)
  + a.durationMins

\* sortByPriority with the comparator turned round (ap - bp): ascending
sortByPriority_ascending(sel) == StableSortDesc(sel, [i \in 1..Len(sel) |-> 0 - priority10(sel[i])])

\* [...selected].sort((a, b) => bp - ap) (lines 104-108)
sortByPriority(sel) == StableSortDesc(sel, [i \in 1..Len(sel) |-> priority10(sel[i])])

\* arrayLength with the day count forced to at least one
\* (Array.from({ length: Math.max(1, daysCount) }))
arrayLength_atLeastOne(n) == IF n < 1 THEN 1 ELSE n

\* Array.from({ length: daysCount }) (line 97): ToLength clamps a negative
\* length to 0
arrayLength(n) == IF n < 0 THEN 0 ELSE n

\* initDays that makes one day per anchor instead of one per requested day
initDays_perAnchor(anchors, n, table) ==
  [i \in 1..Len(anchors) |->
     [dayIndex |-> i - 1,
      anchorNeighborhood |-> Some(anchors[i]),
      blocks |-> [b \in DayBlock |-> <<>>],
      remainingMins |-> [b \in DayBlock |-> table[b]]]]

\* initDays with "anchors[i] ?? anchors[anchors.length - 1] ?? null": days
\* past the anchor list repeat the last anchor
initDays_repeatAnchor(anchors, n, table) ==
  [i \in 1..arrayLength(n) |->
     [dayIndex |-> i - 1,
      anchorNeighborhood |-> IF i <= Len(anchors) THEN Some(anchors[i])
                             ELSE IF Len(anchors) > 0 THEN Some(anchors[Len(anchors)])
                             ELSE Absent,
      blocks |-> [b \in DayBlock |-> <<>>],
      remainingMins |-> [b \in DayBlock |-> table[b]]]]

\* initDays with one capacity for all blocks (remainingMins filled with the
\* morning figure) instead of the spread of the table in line 101
initDays_flatCapacity(anchors, n, table) ==
  [i \in 1..arrayLength(n) |->
     [dayIndex |-> i - 1,
      anchorNeighborhood |-> IF i <= Len(anchors) THEN Some(anchors[i]) ELSE Absent,
      blocks |-> [b \in DayBlock |-> <<>>],
      remainingMins |-> [b \in DayBlock |-> table.morning]]]

\* the days initialisation (lines 97-102); dayIndex is 0-based, the
\* sequence position is dayIndex + 1
initDays(anchors, n, table) ==
  [i \in 1..arrayLength(n) |->
     [dayIndex |-> i - 1,
      anchorNeighborhood |-> IF i <= Len(anchors) THEN Some(anchors[i]) ELSE Absent,
      blocks |-> [b \in DayBlock |-> <<>>],
      remainingMins |-> [b \in DayBlock |-> table[b]]]]

\* fits with the test weakened to "some room is left"
fits_anyRoom(day, b, a) == day.remainingMins[b] > 0

\* fits with > for >=: an activity that would fill the block exactly is
\* turned away
fits_strict(day, b, a) == day.remainingMins[b] > a.durationMins

\* the test of lines 51 and 82
fits(day, b, a) == day.remainingMins[b] >= a.durationMins

\* canFit (lines 49-52)
canFit(day, a) ==
  LET prefs == preferredBlocks(a)
  IN \E i \in 1..Len(prefs) : fits(day, prefs[i], a)

sameCategory(items, a) == Cardinality({i \in 1..Len(items) : items[i].activity.category = a.category})

\* dayScore without the penalty of line 66
dayScore_noPenalty(day, a) ==
  LET anchor == IF day.anchorNeighborhood # Absent
                   /\ day.anchorNeighborhood[1] # ""
                   /\ day.anchorNeighborhood[1] = a.neighborhood THEN 180 ELSE 0
      sameCategoryCount == sameCategory(day.blocks.morning, a)
                           + sameCategory(day.blocks.afternoon, a)
                           + sameCategory(day.blocks.evening, a)
      cluster == IF sameCategoryCount > 0 THEN 60 ELSE 0
      used == (BLOCK_CAPACITY.morning - day.remainingMins.morning)
              + (BLOCK_CAPACITY.afternoon - day.remainingMins.afternoon)
              + (BLOCK_CAPACITY.evening - day.remainingMins.evening)
      load == IF 600 - used > 0 THEN 600 - used ELSE 0
  IN anchor + cluster + load

\* dayScore (lines 54-76), times 60
dayScore(day, a) ==
  LET anchor == IF day.anchorNeighborhood # Absent
                   /\ day.anchorNeighborhood[1] # ""
                   /\ day.anchorNeighborhood[1] = a.neighborhood THEN 180 ELSE 0
      sameCategoryCount == sameCategory(day.blocks.morning, a)
                           + sameCategory(day.blocks.afternoon, a)
                           + sameCategory(day.blocks.evening, a)
      cluster == IF sameCategoryCount > 0 THEN 60 ELSE 0
      penalty == IF ~canFit(day, a) THEN 6000 ELSE 0
      used == (BLOCK_CAPACITY.morning - day.remainingMins.morning)
              + (BLOCK_CAPACITY.afternoon - day.remainingMins.afternoon)
              + (BLOCK_CAPACITY.evening - day.remainingMins.evening)
      load == IF 600 - used > 0 THEN 600 - used ELSE 0
  IN anchor + cluster - penalty + load

\* the day selection with >= for > in line 118: of equal scores the last
\* day wins
RECURSIVE bestDayFrom_lastMax(_, _, _, _, _)
bestDayFrom_lastMax(ds, a, i, best, bestDay) ==
  IF i > Len(ds) THEN bestDay
  ELSE LET s == dayScore(ds[i], a)
       IN IF best = Absent \/ s >= best[1]
          THEN bestDayFrom_lastMax(ds, a, i + 1, Some(s), i)
          ELSE bestDayFrom_lastMax(ds, a, i + 1, best, bestDay)

\* the day selection (lines 113-122): best starts at -Infinity (Absent
\* here), bestDay at days[0]; 0 stands for undefined
RECURSIVE bestDayFrom(_, _, _, _, _)
bestDayFrom(ds, a, i, best, bestDay) ==
  IF i > Len(ds) THEN bestDay
  ELSE LET s == dayScore(ds[i], a)
       IN IF best = Absent \/ s > best[1]
          THEN bestDayFrom(ds, a, i + 1, Some(s), i)
          ELSE bestDayFrom(ds, a, i + 1, best, bestDay)

pickBestDay(ds, a) == bestDayFrom(ds, a, 1, Absent, IF Len(ds) > 0 THEN 1 ELSE 0)

\* placeIndex that keeps the last fitting block instead of the first
placeIndex_lastFit(day, a) ==
  LET prefs == preferredBlocks(a)
      ok == {i \in 1..Len(prefs) : fits(day, prefs[i], a)}
  IN IF ok = {} THEN 0 ELSE CHOOSE i \in ok : \A j \in ok : i >= j

\* placeIndex without the test of line 82: the first preferred block takes
\* the activity whatever its remaining capacity
placeIndex_noTest(day, a) == IF preferredBlocks(a) = <<>> THEN 0 ELSE 1

\* placeIntoDay (lines 78-89): the position in prefs of the block the loop
\* returns at, 0 when it runs to the end
placeIndex(day, a) ==
  LET prefs == preferredBlocks(a)
      ok == {i \in 1..Len(prefs) : fits(day, prefs[i], a)}
  IN IF ok = {} THEN 0 ELSE CHOOSE i \in ok : \A j \in ok : i <= j

\* placeIntoDay without the return of line 85: every fitting preferred
\* block receives the activity
placeIntoDay_noReturn(day, a) ==
  LET prefs == preferredBlocks(a)
      hit == {prefs[i] : i \in {j \in 1..Len(prefs) : fits(day, prefs[j], a)}}
  IN [day EXCEPT
        !.blocks = [b \in DayBlock |->
                      IF b \in hit THEN Append(day.blocks[b], [activity |-> a, block |-> b])
                      ELSE day.blocks[b]],
        !.remainingMins = [b \in DayBlock |->
                      IF b \in hit THEN day.remainingMins[b] - a.durationMins
                      ELSE day.remainingMins[b]]]

\* placeIntoDay with unshift instead of push in line 83: the new item goes
\* to the front of the block
placeIntoDay_unshift(day, a) ==
  LET k == placeIndex(day, a)
      b == preferredBlocks(a)[k]
  IN IF k = 0 THEN day
     ELSE [day EXCEPT !.blocks[b] = <<[activity |-> a, block |-> b]>> \o @,
                      !.remainingMins[b] = @ - a.durationMins]

\* placeIntoDay with "+=" for "-=" in line 84: placing an activity gives
\* the block capacity back instead of taking it
placeIntoDay_addsBack(day, a) ==
  LET k == placeIndex(day, a)
      b == preferredBlocks(a)[k]
  IN IF k = 0 THEN day
     ELSE [day EXCEPT !.blocks[b] = Append(@, [activity |-> a, block |-> b]),
                      !.remainingMins[b] = @ + a.durationMins]

\* placeIntoDay that takes the duration from every block of the day, not
\* only from the block that received the activity
placeIntoDay_chargesDay(day, a) ==
  LET k == placeIndex(day, a)
      b == preferredBlocks(a)[k]
  IN IF k = 0 THEN day
     ELSE [day EXCEPT !.blocks[b] = Append(@, [activity |-> a, block |-> b]),
                      !.remainingMins = [c \in DayBlock |-> @[c] - a.durationMins]]

\* placeIntoDay (lines 83-84): the day after the push and the decrement
placeIntoDay(day, a) ==
  LET k == placeIndex(day, a)
      b == preferredBlocks(a)[k]
  IN IF k = 0 THEN day
     ELSE [day EXCEPT !.blocks[b] = Append(@, [activity |-> a, block |-> b]),
                      !.remainingMins[b] = @ - a.durationMins]

\* line 101 without the spread (remainingMins: BLOCK_CAPACITY): the
\* decrement of line 84 writes through to the table
tableAfterPlace_shared(table, day, a) ==
  LET k == placeIndex(day, a)
  IN IF k = 0 THEN table
     ELSE [table EXCEPT ![preferredBlocks(a)[k]] = @ - a.durationMins]

\* line 101 spreads BLOCK_CAPACITY into a fresh object per day, so the
\* decrement of line 84 never reaches the table itself
tableAfterPlace(table, day, a) == table
\* ---------------------------------------------------------------- actions
\* the store as create() builds it (lines 376-388), nothing
\* stored and nothing in flight
InitStore ==
  /\ config = [city |-> "Paris", daysCount |-> 3, budgetTier |-> 2,
               categories |-> {"food", "culture", "nature", "night", "shopping"}]
  /\ deck = <<>>
  /\ addedIds = {}
  /\ savedIds = {}
  /\ passedIds = {}
  /\ itinerary = <<>>
  /\ tripOverflow = <<>>
  /\ storage = Absent
  /\ requests = <<>>
  /\ ops = 0

Init ==
  /\ InitStore
  /\ selected \in Inputs
  /\ daysCount \in DaysCounts
  /\ BLOCK_CAPACITY = InitialCapacity
  /\ pc = [f \in Frames |-> "idle"]
  /\ days = [f \in Frames |-> <<>>]
  /\ sorted = [f \in Frames |-> <<>>]
  /\ overflow = [f \in Frames |-> <<>>]
  /\ idx = [f \in Frames |-> 1]
  /\ log = [f \in Frames |-> <<>>]

\* line 104 with the spread dropped (selected.sort(...)): the caller's list
\* is sorted in place
selectedAfterSort_inPlace(sel) == sortByPriority(sel)

\* the caller's list after line 104: [...selected] makes a copy, and sort
\* reorders the copy
selectedAfterSort(sel) == sel

\* Call with the loop started at the second element of sorted
Call_skipFirst(f) ==
  /\ pc[f] = "idle"
  /\ LET anchors == topNeighborhoodAnchors(selected, daysCount)
     IN days' = [days EXCEPT ![f] = initDays(anchors, daysCount, BLOCK_CAPACITY)]
  /\ sorted' = [sorted EXCEPT ![f] = sortByPriority(selected)]
  /\ overflow' = [overflow EXCEPT ![f] = <<>>]
  /\ idx' = [idx EXCEPT ![f] = 2]
  /\ pc' = [pc EXCEPT ![f] = "loop"]
  /\ selected' = selectedAfterSort(selected)
  /\ UNCHANGED <<daysCount, BLOCK_CAPACITY, log>>
  /\ UNCHANGED storeVars

\* buildItinerary up to the loop (lines 95-110): anchors, days, sorted copy,
\* empty overflow
Call(f) ==
  /\ pc[f] = "idle"
  /\ LET anchors == topNeighborhoodAnchors(selected, daysCount)
     IN days' = [days EXCEPT ![f] = initDays(anchors, daysCount, BLOCK_CAPACITY)]
  /\ sorted' = [sorted EXCEPT ![f] = sortByPriority(selected)]
  /\ overflow' = [overflow EXCEPT ![f] = <<>>]
  /\ idx' = [idx EXCEPT ![f] = 1]
  /\ pc' = [pc EXCEPT ![f] = "loop"]
  /\ selected' = selectedAfterSort(selected)
  /\ UNCHANGED <<daysCount, BLOCK_CAPACITY, log>>
  /\ UNCHANGED storeVars

\* the activity the for-of loop of line 112 is at
current(f) == sorted[f][idx[f]]

inLoop(f) == pc[f] = "loop" /\ idx[f] <= Len(sorted[f])

logEntry(f, bd, placed) ==
  [activity |-> current(f), before |-> days[f], bestDay |-> bd, placed |-> placed]

\* one loop iteration (lines 112-126) whose placeIntoDay returns true
Place(f) ==
  /\ inLoop(f)
  /\ LET a == current(f)
         bd == pickBestDay(days[f], a)
     IN /\ bd # 0
        /\ placeIndex(days[f][bd], a) # 0
        /\ days' = [days EXCEPT ![f][bd] = placeIntoDay(@, a)]
        /\ BLOCK_CAPACITY' = tableAfterPlace(BLOCK_CAPACITY, days[f][bd], a)
        /\ log' = [log EXCEPT ![f] = Append(@, logEntry(f, bd, TRUE))]
  /\ idx' = [idx EXCEPT ![f] = @ + 1]
  /\ UNCHANGED <<selected, daysCount, pc, sorted, overflow>>
  /\ UNCHANGED storeVars

\* Overflow without line 125: an activity that was not placed is dropped
Overflow_noPush(f) ==
  /\ inLoop(f)
  /\ LET a == current(f)
         bd == pickBestDay(days[f], a)
     IN /\ \/ bd # 0 /\ placeIndex(days[f][bd], a) = 0
           \/ bd = 0 /\ preferredBlocks(a) = <<>>
        /\ log' = [log EXCEPT ![f] = Append(@, logEntry(f, bd, FALSE))]
  /\ idx' = [idx EXCEPT ![f] = @ + 1]
  /\ UNCHANGED <<selected, daysCount, BLOCK_CAPACITY, pc, days, sorted, overflow>>
  /\ UNCHANGED storeVars

\* one loop iteration whose placeIntoDay returns false: line 125 pushes the
\* activity to overflow
Overflow(f) ==
  /\ inLoop(f)
  /\ LET a == current(f)
         bd == pickBestDay(days[f], a)
     IN /\ \/ bd # 0 /\ placeIndex(days[f][bd], a) = 0
           \/ bd = 0 /\ preferredBlocks(a) = <<>>
        /\ overflow' = [overflow EXCEPT ![f] = Append(@, a)]
        /\ log' = [log EXCEPT ![f] = Append(@, logEntry(f, bd, FALSE))]
  /\ idx' = [idx EXCEPT ![f] = @ + 1]
  /\ UNCHANGED <<selected, daysCount, BLOCK_CAPACITY, pc, days, sorted>>
  /\ UNCHANGED storeVars

\* one loop iteration over an empty days list: bestDay is days[0], which is
\* undefined, the inner loop does not run, and the first round of the loop
\* in placeIntoDay reads day.remainingMins of undefined (line 82): TypeError
Throw(f) ==
  /\ inLoop(f)
  /\ pickBestDay(days[f], current(f)) = 0
  /\ preferredBlocks(current(f)) # <<>>
  /\ pc' = [pc EXCEPT ![f] = "threw"]
  /\ UNCHANGED <<selected, daysCount, BLOCK_CAPACITY, days, sorted, overflow, idx, log>>
  /\ UNCHANGED storeVars

\* the loop is over: return { days, overflow } (line 128)
Return(f) ==
  /\ pc[f] = "loop"
  /\ idx[f] > Len(sorted[f])
  /\ pc' = [pc EXCEPT ![f] = "done"]
  /\ UNCHANGED <<selected, daysCount, BLOCK_CAPACITY, days, sorted, overflow, idx, log>>
  /\ UNCHANGED storeVars

Next ==
  \E f \in Frames :
    \/ Call(f)
    \/ Place(f)
    \/ Overflow(f)
    \/ Throw(f)
    \/ Return(f)

Spec == Init /\ [][Next]_vars


\* ------------------------------------------------- lists of five and more
\* A second set of arguments for the same frames: the sublists of one list
\* of five activities, three of them in one neighbourhood, two of them bound
\* to the evening, with day counts up to 3.
TripOfFive ==
  << Act("g1", "night",  180, "Bercy",    Absent,              Absent, Absent),
     Act("g2", "night",  120, "Pigalle",  Some(<<"evening">>), Absent, Absent),
     Act("g3", "food",   90,  "Auteuil",  Absent,              Absent, Some(80)),
     Act("g4", "night",  60,  "Pigalle",  Absent,              Absent, Some(80)),
     Act("g5", "nature", 60,  "Pigalle",  Some(<<"evening">>), Absent, Some(80)) >>

\* the order-preserving sublists of s
RECURSIVE SubLists(_)
SubLists(s) ==
  IF s = <<>> THEN {<<>>}
  ELSE LET rest == SubLists(Tail(s))
       IN rest \cup {<<Head(s)>> \o t : t \in rest}

LongDaysCounts == 0..(MaxDays + 1)

LongInit ==
  /\ InitStore
  /\ selected \in SubLists(TripOfFive)
  /\ daysCount \in LongDaysCounts
  /\ BLOCK_CAPACITY = InitialCapacity
  /\ pc = [f \in Frames |-> "idle"]
  /\ days = [f \in Frames |-> <<>>]
  /\ sorted = [f \in Frames |-> <<>>]
  /\ overflow = [f \in Frames |-> <<>>]
  /\ idx = [f \in Frames |-> 1]
  /\ log = [f \in Frames |-> <<>>]

LongSpec == LongInit /\ [][Next]_vars
\* ------------------------------------------------------------- trip store
\* the activities the screens hand to swipeAdd and removeFromTrip, the ones
\* they hand to swipeSave and swipePass, the decks setDeck is given and the
\* numbers setDaysCount is given
StoreActs == {Catalog[1], Catalog[2], Catalog[5]}
SwipedAway == {Catalog[1]}
StoreDecks == {<<Catalog[2], Catalog[5]>>, <<Catalog[5], Catalog[1], Catalog[2]>>}
DayInputs == (-1)..6

\* the loop of buildItinerary (lines 112-126) from position i on
RECURSIVE placeAll(_, _, _, _)
placeAll(acts, i, ds, ov) ==
  IF i > Len(acts) THEN [threw |-> FALSE, days |-> ds, overflow |-> ov]
  ELSE LET a == acts[i]
           bd == pickBestDay(ds, a)
       IN IF bd = 0
          THEN IF preferredBlocks(a) # <<>>
               THEN [threw |-> TRUE, days |-> ds, overflow |-> ov]
               ELSE placeAll(acts, i + 1, ds, Append(ov, a))
          ELSE IF placeIndex(ds[bd], a) # 0
               THEN placeAll(acts, i + 1, [ds EXCEPT ![bd] = placeIntoDay(@, a)], ov)
               ELSE placeAll(acts, i + 1, ds, Append(ov, a))

\* buildItinerary as one call: what it returns, or that it threw
buildItinerary(sel, n) ==
  placeAll(sortByPriority(sel), 1,
           initDays(topNeighborhoodAnchors(sel, n), n, BLOCK_CAPACITY), <<>>)

\* Array.from(s) and new Set(a) (lines 368-373)
RECURSIVE setToArray(_)
setToArray(s) ==
  IF s = {} THEN <<>>
  ELSE LET x == CHOOSE y \in s : TRUE IN <<x>> \o setToArray(s \ {x})

arrayToSet(a) == {a[i] : i \in 1..Len(a)}

\* the object persist stringifies (lines 474-484); JSON keeps it as it is
payloadOf(cfg, added, saved, passed) ==
  [config |-> [city |-> cfg.city, daysCount |-> cfg.daysCount,
               budgetTier |-> cfg.budgetTier,
               categories |-> setToArray(cfg.categories)],
   addedIds |-> setToArray(added),
   savedIds |-> setToArray(saved),
   passedIds |-> setToArray(passed)]

\* st.deck.filter((a) => st.addedIds.has(a.id)) (line 441)
selectedOf(dk, added) == SelectSeq(dk, LAMBDA a : a.id \in added)

\* get().regenerate() on the state (cfg, dk, added): lines 440-443
regenerateOn(cfg, dk, added) ==
  LET r == buildItinerary(selectedOf(dk, added), cfg.daysCount)
  IN IF r.threw THEN UNCHANGED <<itinerary, tripOverflow>>
     ELSE itinerary' = r.days /\ tripOverflow' = r.overflow

regenerateThrows(cfg, dk, added) ==
  buildItinerary(selectedOf(dk, added), cfg.daysCount).threw

\* void get().persist() up to its await (lines 473-485): setItem is called
\* with the payload of the state it is given
persistOn(cfg, added, saved, passed) ==
  requests' = Append(requests, [op |-> "setItem",
                                value |-> payloadOf(cfg, added, saved, passed)])

\* get().regenerate(); void get().persist(); an exception of regenerate
\* leaves the handler before persist
regenerateThenPersist(cfg, dk, added, saved, passed) ==
  /\ regenerateOn(cfg, dk, added)
  /\ IF regenerateThrows(cfg, dk, added) THEN UNCHANGED requests
     ELSE persistOn(cfg, added, saved, passed)

mayCall == ops < MaxOps

called == ops' = ops + 1

\* the clamp without its lower end (Math.min(4, n))
clampDays_noFloor(n) == IF n < 4 THEN n ELSE 4

\* Math.max(2, Math.min(4, n)) (line 391)
clampDays(n) ==
  LET lo == IF n < 4 THEN n ELSE 4 IN IF lo > 2 THEN lo ELSE 2

\* setDaysCount (lines 390-394)
setDaysCount(n) ==
  /\ mayCall
  /\ LET cfg == [config EXCEPT !.daysCount = clampDays(n)]
     IN /\ config' = cfg
        /\ regenerateThenPersist(cfg, deck, addedIds, savedIds, passedIds)
  /\ called
  /\ UNCHANGED <<deck, addedIds, savedIds, passedIds, storage>>
  /\ UNCHANGED frameVars

\* setDeck (lines 396-399)
setDeck(d) ==
  /\ mayCall
  /\ deck' = d
  /\ IF Cardinality(addedIds) > 0 THEN regenerateOn(config, d, addedIds)
     ELSE UNCHANGED <<itinerary, tripOverflow>>
  /\ called
  /\ UNCHANGED <<config, addedIds, savedIds, passedIds, storage, requests>>
  /\ UNCHANGED frameVars


\* swipeAdd that places the new activity into the itinerary at hand instead
\* of rebuilding it from the deck (no regenerate in line 407)
swipeAdd_incremental(activity) ==
  /\ mayCall
  /\ LET added == addedIds \cup {activity.id}
         base == IF itinerary = <<>>
                 THEN initDays(<<>>, config.daysCount, BLOCK_CAPACITY)
                 ELSE itinerary
         fresh == IF activity.id \in addedIds \/ activity \notin Range(deck)
                  THEN <<>> ELSE <<activity>>
         r == placeAll(fresh, 1, base, tripOverflow)
     IN /\ addedIds' = added
        /\ itinerary' = r.days
        /\ tripOverflow' = r.overflow
        /\ persistOn(config, added, savedIds, passedIds)
  /\ called
  /\ UNCHANGED <<config, deck, savedIds, passedIds, storage>>
  /\ UNCHANGED frameVars

\* swipeAdd (lines 401-409)
swipeAdd(activity) ==
  /\ mayCall
  /\ LET added == addedIds \cup {activity.id}
     IN /\ addedIds' = added
        /\ regenerateThenPersist(config, deck, added, savedIds, passedIds)
  /\ called
  /\ UNCHANGED <<config, deck, savedIds, passedIds, storage>>
  /\ UNCHANGED frameVars

\* swipeSave (lines 411-418)
swipeSave(activity) ==
  /\ mayCall
  /\ savedIds' = savedIds \cup {activity.id}
  /\ persistOn(config, addedIds, savedIds \cup {activity.id}, passedIds)
  /\ called
  /\ UNCHANGED <<config, deck, addedIds, passedIds, itinerary, tripOverflow, storage>>
  /\ UNCHANGED frameVars

\* swipePass (lines 420-427)
swipePass(activity) ==
  /\ mayCall
  /\ passedIds' = passedIds \cup {activity.id}
  /\ persistOn(config, addedIds, savedIds, passedIds \cup {activity.id})
  /\ called
  /\ UNCHANGED <<config, deck, addedIds, savedIds, itinerary, tripOverflow, storage>>
  /\ UNCHANGED frameVars

\* removeFromTrip without line 435: the id leaves addedIds and the itinerary
\* is left as it was
removeFromTrip_noRegenerate(activityId) ==
  /\ mayCall
  /\ addedIds' = addedIds \ {activityId}
  /\ persistOn(config, addedIds \ {activityId}, savedIds, passedIds)
  /\ called
  /\ UNCHANGED <<config, deck, savedIds, passedIds, itinerary, tripOverflow, storage>>
  /\ UNCHANGED frameVars

\* removeFromTrip (lines 429-437)
removeFromTrip(activityId) ==
  /\ mayCall
  /\ LET added == addedIds \ {activityId}
     IN /\ addedIds' = added
        /\ regenerateThenPersist(config, deck, added, savedIds, passedIds)
  /\ called
  /\ UNCHANGED <<config, deck, savedIds, passedIds, storage>>
  /\ UNCHANGED frameVars

\* regenerate called from a screen (lines 439-444)
regenerate ==
  /\ mayCall
  /\ regenerateOn(config, deck, addedIds)
  /\ called
  /\ UNCHANGED <<config, deck, addedIds, savedIds, passedIds, storage, requests>>
  /\ UNCHANGED frameVars

\* hydrate up to its await (line 447): getItem is asked for
hydrate ==
  /\ mayCall
  /\ requests' = Append(requests, [op |-> "getItem"])
  /\ called
  /\ UNCHANGED <<config, deck, addedIds, savedIds, passedIds, itinerary,
                 tripOverflow, storage>>
  /\ UNCHANGED frameVars

\* AsyncStorage serves the oldest request, a getItem, and hydrate runs on
\* from its await with the value read (lines 448-469)
hydrateResume ==
  /\ requests # <<>>
  /\ Head(requests).op = "getItem"
  /\ requests' = Tail(requests)
  /\ IF storage = Absent
     THEN UNCHANGED <<config, addedIds, savedIds, passedIds, itinerary, tripOverflow>>
     ELSE LET parsed == storage[1]
              cfg == [city |-> parsed.config.city,
                      daysCount |-> parsed.config.daysCount,
                      budgetTier |-> parsed.config.budgetTier,
                      categories |-> arrayToSet(parsed.config.categories)]
              added == arrayToSet(parsed.addedIds)
          IN /\ config' = cfg
             /\ addedIds' = added
             /\ savedIds' = arrayToSet(parsed.savedIds)
             /\ passedIds' = arrayToSet(parsed.passedIds)
             /\ regenerateOn(cfg, deck, added)
  /\ UNCHANGED <<deck, storage, ops>>
  /\ UNCHANGED frameVars

\* AsyncStorage serves the oldest request, a setItem of persist (line 485)
persistLands ==
  /\ requests # <<>>
  /\ Head(requests).op = "setItem"
  /\ storage' = Some(Head(requests).value)
  /\ requests' = Tail(requests)
  /\ UNCHANGED <<config, deck, addedIds, savedIds, passedIds, itinerary,
                 tripOverflow, ops>>
  /\ UNCHANGED frameVars

\* the store on its own: no buildItinerary frame is running
StoreInit ==
  /\ InitStore
  /\ selected = <<>>
  /\ daysCount = 0
  /\ BLOCK_CAPACITY = InitialCapacity
  /\ pc = [f \in Frames |-> "idle"]
  /\ days = [f \in Frames |-> <<>>]
  /\ sorted = [f \in Frames |-> <<>>]
  /\ overflow = [f \in Frames |-> <<>>]
  /\ idx = [f \in Frames |-> 1]
  /\ log = [f \in Frames |-> <<>>]

StoreNext ==
  \/ \E n \in DayInputs : setDaysCount(n)
  \/ \E d \in StoreDecks : setDeck(d)
  \/ \E a \in StoreActs : swipeAdd(a)
  \/ \E a \in SwipedAway : swipeSave(a)
  \/ \E a \in SwipedAway : swipePass(a)
  \/ \E a \in StoreActs : removeFromTrip(a.id)
  \/ regenerate
  \/ hydrate
  \/ hydrateResume
  \/ persistLands

StoreSpec == StoreInit /\ [][StoreNext]_vars

\* the one-call form of buildItinerary and the frames that run its loop step
\* by step compute the same result
FramesAgree ==
  \A f \in Frames :
    /\ pc[f] = "done" =>
         buildItinerary(selected, daysCount)
           = [threw |-> FALSE, days |-> days[f], overflow |-> overflow[f]]
    /\ pc[f] = "threw" => buildItinerary(selected, daysCount).threw
\* ----------------------------------------------------------------- claims
ended(f) == pc[f] \in {"done", "threw"}

\* the ScheduledItems of one day, block after block
dayItems(day) == day.blocks.morning \o day.blocks.afternoon \o day.blocks.evening

\* how often activity a occurs in a list of ScheduledItems
itemCount(items, a) == Cardinality({i \in 1..Len(items) : items[i].activity = a})

RECURSIVE sumOver(_, _)
sumOver(fn, S) ==
  IF S = {} THEN 0
  ELSE LET x == CHOOSE y \in S : TRUE IN fn[x] + sumOver(fn, S \ {x})

\* occurrences of a over all blocks of all days of frame f, plus overflow
occurrences(f, a) ==
  sumOver([d \in 1..Len(days[f]) |-> itemCount(dayItems(days[f][d]), a)], 1..Len(days[f]))
  + Cardinality({i \in 1..Len(overflow[f]) : overflow[f][i] = a})

scheduled(f) == UNION {{dayItems(days[f][d])[i].activity : i \in 1..Len(dayItems(days[f][d]))} :
                       d \in 1..Len(days[f])}

\* C1: with daysCount >= 1, in the returned result every input activity
\* occurs exactly once over all blocks of all days together with overflow,
\* and nothing occurs that was not in the input.
C1_ExactlyOnce ==
  \A f \in Frames :
    (pc[f] = "done" /\ daysCount >= 1) =>
      /\ \A a \in Range(selected) : occurrences(f, a) = 1
      /\ scheduled(f) \cup Range(overflow[f]) \subseteq Range(selected)

\* a returned result with both placed and overflowed activities
C1_Witness ==
  \E f \in Frames :
    /\ pc[f] = "done" /\ daysCount >= 1
    /\ scheduled(f) # {} /\ overflow[f] # <<>>
    /\ Len(selected) = MaxActs

blockSum(items) == sumOver([i \in 1..Len(items) |-> items[i].activity.durationMins], 1..Len(items))

\* C2: after every step, in every day and block the durations of the
\* block's items sum to at most the block's initial capacity.
C2_WithinCapacity ==
  \A f \in Frames : \A d \in 1..Len(days[f]) : \A b \in DayBlock :
    blockSum(days[f][d].blocks[b]) <= InitialCapacity[b]

\* a block filled to the minute next to an activity that had to overflow
C2_Witness ==
  \E f \in Frames : \E d \in 1..Len(days[f]) : \E b \in DayBlock :
    /\ blockSum(days[f][d].blocks[b]) = InitialCapacity[b]
    /\ \E a \in Range(overflow[f]) : a.durationMins <= InitialCapacity[b] /\ a.durationMins > 0
\* C3: buildItinerary never raises a fault: no call ends by throwing,
\* whatever the activity list and the daysCount (0 and negatives included).
C3_NeverThrows ==
  \A f \in Frames : pc[f] # "threw"

\* C4: for daysCount <= 0 a call ends by returning a result with no days
\* and with every input activity in overflow.
C4_NoDaysAllOverflow ==
  \A f \in Frames :
    (ended(f) /\ daysCount <= 0) =>
      /\ pc[f] = "done"
      /\ days[f] = <<>>
      /\ Range(overflow[f]) = Range(selected)
C6_DaysCount ==
  \A f \in Frames :
    (pc[f] = "done" /\ daysCount >= 1) =>
      /\ Len(days[f]) = daysCount
      /\ \A i \in 1..Len(days[f]) : days[f][i].dayIndex = i - 1

\* a returned result with more days than activities
C6_Witness ==
  \E f \in Frames :
    pc[f] = "done" /\ daysCount = MaxDays /\ Len(selected) < daysCount
    /\ Len(days[f]) = MaxDays

\* the days on which activity a fits some preferred block
fitDays(ds, a) == {d \in 1..Len(ds) : canFit(ds[d], a)}

\* C7: with daysCount >= 1, an activity is overflowed exactly when no day
\* could fit it at the moment it was processed; when some day can fit it
\* the chosen day is one of them; and in the returned result no overflow
\* activity fits any preferred block of any day.
C7_OverflowIffNoFit ==
  \A f \in Frames :
    daysCount >= 1 =>
      /\ \A k \in 1..Len(log[f]) :
           LET e == log[f][k]
               fd == fitDays(e.before, e.activity)
           IN /\ (e.activity \in Range(overflow[f])) <=> (fd = {})
              /\ (e.activity \in scheduled(f)) <=> (fd # {})
              /\ fd # {} => e.bestDay \in fd
      /\ pc[f] = "done" =>
           \A a \in Range(overflow[f]) : fitDays(days[f], a) = {}

\* one activity was placed although a day could not fit it, another one
\* was overflowed
C7_Witness ==
  \E f \in Frames :
    /\ pc[f] = "done" /\ daysCount >= 2
    /\ \E k \in 1..Len(log[f]) :
         LET fd == fitDays(log[f][k].before, log[f][k].activity)
         IN fd # {} /\ fd # 1..daysCount /\ log[f][k].placed
    /\ \E k \in 1..Len(log[f]) : ~log[f][k].placed

\* the days right after loop iteration k of frame f
afterDays(f, k) == IF k < Len(log[f]) THEN log[f][k + 1].before ELSE days[f]

\* the blocks of the chosen day whose item list iteration k changed
gained(f, k) ==
  LET e == log[f][k]
  IN {b \in DayBlock :
        afterDays(f, k)[e.bestDay].blocks[b] # e.before[e.bestDay].blocks[b]}

\* iteration k appended its activity to block b of the chosen day, and b is
\* the first block of order that could take it
wentToFirstOf(f, k, order) ==
  LET e == log[f][k]
      a == e.activity
      day == e.before[e.bestDay]
  IN \E i \in 1..Len(order) :
       /\ gained(f, k) = {order[i]}
       /\ afterDays(f, k)[e.bestDay].blocks[order[i]]
            = Append(day.blocks[order[i]], [activity |-> a, block |-> order[i]])
       /\ day.remainingMins[order[i]] >= a.durationMins
       /\ \A j \in 1..(i - 1) : day.remainingMins[order[j]] < a.durationMins

\* C8: a placed activity goes into the first block of its preferred order
\* whose remaining capacity is >= its duration, and into that block only.
C8_FirstFittingBlock ==
  \A f \in Frames : \A k \in 1..Len(log[f]) :
    log[f][k].placed =>
      /\ Cardinality(gained(f, k)) = 1
      /\ wentToFirstOf(f, k, preferredBlocks(log[f][k].activity))

\* an activity went to a later-preference block because the earlier ones
\* lacked the capacity
C8_Witness ==
  \E f \in Frames : \E k \in 1..Len(log[f]) :
    LET e == log[f][k]
        first == preferredBlocks(e.activity)[1]
    IN /\ e.placed
       /\ first \notin gained(f, k)
       /\ e.before[e.bestDay].remainingMins[first] < e.activity.durationMins

hasWindows(a) == a.openWindows # Absent /\ a.openWindows[1] # <<>>

\* C9: an activity with a non-empty openWindows list is only ever placed
\* into a listed block, the first listed one with enough capacity; when no
\* listed block of the chosen day has the capacity it is overflowed.
C9_OpenWindowsOnly ==
  \A f \in Frames :
    /\ \A d \in 1..Len(days[f]) : \A b \in DayBlock :
         \A i \in 1..Len(days[f][d].blocks[b]) :
           LET a == days[f][d].blocks[b][i].activity
           IN hasWindows(a) => b \in Range(a.openWindows[1])
    /\ \A k \in 1..Len(log[f]) :
         LET e == log[f][k]
             a == e.activity
         IN (hasWindows(a) /\ e.bestDay # 0) =>
              IF \E i \in 1..Len(a.openWindows[1]) :
                   e.before[e.bestDay].remainingMins[a.openWindows[1][i]] >= a.durationMins
              THEN wentToFirstOf(f, k, a.openWindows[1])
              ELSE gained(f, k) = {} /\ a \in Range(overflow[f])

\* an activity with openWindows was overflowed although an unlisted block
\* of its chosen day had room, and another one was placed into a listed
\* block although its category's order has an earlier block with room
C9_Witness ==
  \E f \in Frames :
    /\ \E k \in 1..Len(log[f]) :
         LET e == log[f][k]
         IN /\ hasWindows(e.activity) /\ ~e.placed /\ e.bestDay # 0
            /\ \E b \in DayBlock \ Range(e.activity.openWindows[1]) :
                 e.before[e.bestDay].remainingMins[b] >= e.activity.durationMins
    /\ \E k \in 1..Len(log[f]) :
         LET e == log[f][k]
             dflt == defaultBlocks(e.activity)
         IN /\ hasWindows(e.activity) /\ e.placed
            /\ \E i, j \in 1..3 :
                 /\ i < j
                 /\ dflt[j] \in gained(f, k)
                 /\ e.before[e.bestDay].remainingMins[dflt[i]] >= e.activity.durationMins

\* the default orders as the claim lists them
C10_Order(cat) ==
  IF cat \in {"food", "night"} THEN <<"evening", "afternoon", "morning">>
  ELSE IF cat = "culture" THEN <<"morning", "afternoon", "evening">>
  ELSE <<"afternoon", "morning", "evening">>

allFit(e) ==
  \A b \in DayBlock : e.before[e.bestDay].remainingMins[b] >= e.activity.durationMins

selectedNeighborhoods == {selected[i].neighborhood : i \in 1..Len(selected)}

occurrencesOf(n) == Cardinality({i \in 1..Len(selected) : selected[i].neighborhood = n})

firstAppearance(n) ==
  CHOOSE i \in 1..Len(selected) :
    /\ selected[i].neighborhood = n
    /\ \A j \in 1..(i - 1) : selected[j].neighborhood # n

\* 1 for the most frequent neighborhood, 2 for the next one, ...; equal
\* counts are ranked by first appearance
frequencyRank(n) ==
  1 + Cardinality({m \in selectedNeighborhoods :
        \/ occurrencesOf(m) > occurrencesOf(n)
        \/ occurrencesOf(m) = occurrencesOf(n) /\ firstAppearance(m) < firstAppearance(n)})

\* C11: with daysCount >= 1, day i's anchor is the neighborhood with the
\* i-th highest number of occurrences among the selected activities, equal
\* counts ranked by first appearance in the input list.
C11_AnchorsByFrequency ==
  \A f \in Frames :
    (pc[f] # "idle" /\ daysCount >= 1) =>
      \A i \in 1..Len(days[f]) : \A n \in selectedNeighborhoods :
        frequencyRank(n) = i => days[f][i].anchorNeighborhood = Some(n)

\* day 0 is anchored to a neighborhood that is not the first activity's,
\* because a later one occurs more often
C11_Witness ==
  \E f \in Frames :
    /\ pc[f] = "done" /\ daysCount >= 2
    /\ Len(selected) = MaxActs
    /\ days[f][1].anchorNeighborhood # Some(selected[1].neighborhood)
    /\ days[f][2].anchorNeighborhood = Some(selected[1].neighborhood)

anchoredDays(f) == {i \in 1..Len(days[f]) : days[f][i].anchorNeighborhood # Absent}

inputPosition(a) == CHOOSE i \in 1..Len(selected) : selected[i] = a

\* a comes before b in Priority Ranker order: higher priority score, or the
\* same score and earlier in the input list
rankedBefore(a, b) ==
  \/ priority10(a) > priority10(b)
  \/ priority10(a) = priority10(b) /\ inputPosition(a) < inputPosition(b)

\* C13: the overflow list is in Priority Ranker order: of two overflow
\* activities the one with the higher priority score comes first, and two
\* of equal score come in input-list order.
C13_OverflowInPriorityOrder ==
  \A f \in Frames : \A i, j \in 1..Len(overflow[f]) :
    i < j => rankedBefore(overflow[f][i], overflow[f][j])

\* two overflowed activities stand in the opposite order of the input list
C13_Witness ==
  \E f \in Frames :
    /\ pc[f] = "done"
    /\ \E i, j \in 1..Len(overflow[f]) :
         i < j /\ inputPosition(overflow[f][i]) > inputPosition(overflow[f][j])

\* the loop iteration of frame f that processed activity a
iterationOf(f, a) == CHOOSE k \in 1..Len(log[f]) : log[f][k].activity = a

\* C14: within every block of every day the items stand in the order in
\* which they were placed, which is Priority Ranker order: an activity
\* processed later never stands before one processed earlier.
C14_BlockInPlacementOrder ==
  \A f \in Frames : \A d \in 1..Len(days[f]) : \A b \in DayBlock :
    LET items == days[f][d].blocks[b]
    IN \A i, j \in 1..Len(items) :
         i < j =>
           /\ rankedBefore(items[i].activity, items[j].activity)
           /\ iterationOf(f, items[i].activity) < iterationOf(f, items[j].activity)

\* two items of one block stand in the opposite order of the input list
C14_Witness ==
  \E f \in Frames : \E d \in 1..Len(days[f]) : \E b \in DayBlock :
    LET items == days[f][d].blocks[b]
    IN /\ pc[f] = "done"
       /\ \E i, j \in 1..Len(items) :
            i < j /\ inputPosition(items[i].activity) > inputPosition(items[j].activity)

\* C15: with daysCount >= 1, an activity longer than 240 minutes (the
\* largest block) is never scheduled, its loop iteration leaves every day as
\* it was, and it is in overflow when the call returns.
C15_OversizeOverflows ==
  \A f \in Frames :
    daysCount >= 1 =>
      /\ \A a \in scheduled(f) : a.durationMins <= 240
      /\ \A k \in 1..Len(log[f]) :
           log[f][k].activity.durationMins > 240 =>
             /\ afterDays(f, k) = log[f][k].before
             /\ log[f][k].activity \in Range(overflow[f])
      /\ pc[f] = "done" =>
           \A a \in Range(selected) : a.durationMins > 240 => a \in Range(overflow[f])

\* an oversize activity was overflowed on days that were still empty, and
\* the activities selected with it were placed
C15_Witness ==
  \E f \in Frames :
    /\ pc[f] = "done" /\ daysCount >= 1
    /\ Len(selected) = MaxActs
    /\ Len(overflow[f]) = 1
    /\ overflow[f][1].durationMins > 240
    /\ \E k \in 1..Len(log[f]) :
         /\ log[f][k].activity = overflow[f][1]
         /\ \A d \in 1..Len(days[f]) : \A b \in DayBlock :
              log[f][k].before[d].remainingMins[b] = InitialCapacity[b]

totalDuration == sumOver([i \in 1..Len(selected) |-> selected[i].durationMins], 1..Len(selected))

\* C16: with daysCount >= 1, when the selected activities last longer in
\* total than the requested days hold (600 minutes per day), the returned
\* overflow list is not empty.
C16_OverCapacityOverflows ==
  \A f \in Frames :
    (pc[f] = "done" /\ daysCount >= 1 /\ totalDuration > 600 * daysCount) =>
      overflow[f] # <<>>

\* activities that each fit a block but together exceed the day
C16_Witness ==
  \E f \in Frames :
    /\ pc[f] = "done" /\ daysCount >= 1
    /\ totalDuration > 600 * daysCount
    /\ \A a \in Range(selected) : a.durationMins <= 240
    /\ overflow[f] # <<>>

\* all ScheduledItems of frame f
allItems(f) == UNION {{<<d, b, i>> : i \in 1..Len(days[f][d].blocks[b])} :
                      <<d, b>> \in (1..Len(days[f])) \X DayBlock}

\* C17: a single selected activity that fits the full capacity of one of
\* its preferred blocks, with any daysCount >= 1: the result holds exactly
\* one ScheduledItem, that activity, in one block of one day; every other
\* day is empty and overflow is empty.
C17_SingleActivityPlaced ==
  \A f \in Frames :
    (/\ pc[f] = "done" /\ daysCount >= 1 /\ Len(selected) = 1
     /\ \E b \in Range(preferredBlocks(selected[1])) :
          selected[1].durationMins <= InitialCapacity[b]) =>
      /\ Cardinality(allItems(f)) = 1
      /\ \A t \in allItems(f) : days[f][t[1]].blocks[t[2]][t[3]].activity = selected[1]
      /\ overflow[f] = <<>>

\* more days than activities, and the activity fills its block exactly
C17_Witness ==
  \E f \in Frames :
    /\ pc[f] = "done" /\ daysCount = MaxDays /\ Len(selected) = 1
    /\ Cardinality(allItems(f)) = 1
    /\ \E t \in allItems(f) : days[f][t[1]].remainingMins[t[2]] = 0
    /\ \E d \in 1..Len(days[f]) : dayItems(days[f][d]) = <<>>

\* C18: for an empty activity list and any daysCount >= 0 the result has
\* daysCount days, each with three empty blocks, the full remaining
\* capacity and no anchor, and overflow is empty.
C18_EmptyInput ==
  \A f \in Frames :
    (pc[f] = "done" /\ selected = <<>> /\ daysCount >= 0) =>
      /\ Len(days[f]) = daysCount
      /\ \A d \in 1..Len(days[f]) :
           /\ \A b \in DayBlock :
                /\ days[f][d].blocks[b] = <<>>
                /\ days[f][d].remainingMins[b] = InitialCapacity[b]
           /\ days[f][d].anchorNeighborhood = Absent
      /\ overflow[f] = <<>>

\* the empty list returned with the largest day count: the loop never ran
C18_Witness ==
  \E f \in Frames :
    /\ pc[f] = "done" /\ selected = <<>> /\ daysCount = MaxDays
    /\ Len(days[f]) = MaxDays
    /\ log[f] = <<>>

\* the score as the claim states it, times 60: +3 anchor, +1 category,
\* -100 no preferred block with the capacity, max(0, 10 - usedMinutes/60),
\* usedMinutes being the minutes of the items the day holds
C20_Score(day, a) ==
  LET usedMinutes == blockSum(day.blocks.morning) + blockSum(day.blocks.afternoon)
                     + blockSum(day.blocks.evening)
      prefs == preferredBlocks(a)
  IN (IF day.anchorNeighborhood = Some(a.neighborhood) THEN 180 ELSE 0)
     + (IF \E i \in 1..Len(dayItems(day)) : dayItems(day)[i].activity.category = a.category
        THEN 60 ELSE 0)
     + (IF \A i \in 1..Len(prefs) : day.remainingMins[prefs[i]] < a.durationMins
        THEN 0 - 6000 ELSE 0)
     + (IF usedMinutes < 600 THEN 600 - usedMinutes ELSE 0)

\* C20: the day handed to the Block Placer is the day of greatest score,
\* score = +3 anchor match, +1 same category present, -100 no preferred
\* block with the capacity, + max(0, 10 - usedMinutes/60); of the days with
\* the greatest score the one with the lowest index is chosen.
C20_BestDayChosen ==
  \A f \in Frames : \A k \in 1..Len(log[f]) :
    LET e == log[f][k]
    IN e.bestDay # 0 =>
         \A d \in 1..Len(e.before) :
           /\ C20_Score(e.before[e.bestDay], e.activity) >= C20_Score(e.before[d], e.activity)
           /\ d < e.bestDay =>
                C20_Score(e.before[e.bestDay], e.activity) > C20_Score(e.before[d], e.activity)

\* one activity met two days of equal greatest score and took the first,
\* another one was handed to a later day
C20_Witness ==
  \E f \in Frames :
    /\ \E k \in 1..Len(log[f]) :
         LET e == log[f][k]
         IN /\ e.bestDay = 1
            /\ \E d \in 2..Len(e.before) :
                 C20_Score(e.before[d], e.activity) = C20_Score(e.before[1], e.activity)
    /\ \E k \in 1..Len(log[f]) : log[f][k].bestDay > 1 /\ log[f][k].placed


\* the ids of the activities the store's itinerary shows: in the blocks of
\* its days
blockIds ==
  UNION {{dayItems(itinerary[d])[i].activity.id : i \in 1..Len(dayItems(itinerary[d]))} :
           d \in 1..Len(itinerary)}

\* and in its overflow list
overflowIds == {tripOverflow[i].id : i \in 1..Len(tripOverflow)}

\* the ids of the deck activities that are in addedIds
addedDeckIds == {deck[i].id : i \in {j \in 1..Len(deck) : deck[j].id \in addedIds}}

\* C19: between any two store operations (setDeck, swipeAdd, swipeSave,
\* swipePass, removeFromTrip, setDaysCount, regenerate, a hydrate that has
\* run to its end), the ids in the itinerary's blocks together with the ids
\* in the overflow list are exactly the ids of the deck activities that are
\* in addedIds.
C19_NoStaleItinerary == blockIds \cup overflowIds = addedDeckIds

\* C19 witness: after four operations the itinerary shows one added deck
\* activity in a block and one in overflow, and a third added id is not in
\* the deck
C19_Witness ==
  /\ blockIds # {}
  /\ overflowIds # {}
  /\ addedIds \ addedDeckIds # {}

\* ten times the priority as the Priority Ranker is described: popularity
\* (50 when absent, an explicit 0 stays 0), 15 more when mustBook is true,
\* and a tenth of the duration
C21_Priority10(a) ==
  LET popularity == IF a.popularity = Absent THEN 50 ELSE a.popularity[1]
      booking == IF a.mustBook = Some(TRUE) THEN 15 ELSE 0
  IN 10 * popularity + 10 * booking + a.durationMins

C21_Before(a, b) ==
  \/ C21_Priority10(a) > C21_Priority10(b)
  \/ C21_Priority10(a) = C21_Priority10(b) /\ inputPosition(a) < inputPosition(b)

\* the activities frame f has processed so far
processed(f) == {log[f][k].activity : k \in 1..Len(log[f])}

\* C21: the activities are processed in descending order of priority, and
\* those of equal priority in input-list order; an activity is placed or
\* overflowed before any activity of lower rank is looked at, so at every
\* moment each processed activity ranks before each one still waiting.
C21_ProcessedInPriorityOrder ==
  \A f \in Frames :
    /\ \A i, j \in 1..Len(log[f]) :
         i < j => C21_Before(log[f][i].activity, log[f][j].activity)
    /\ pc[f] = "loop" =>
         \A a \in processed(f) : \A b \in Range(selected) \ processed(f) :
           C21_Before(a, b)

\* two activities of equal priority were processed in input order, and
\* after them one with an explicit popularity of 0 that "popularity || 50"
\* would have put first
C21_Witness ==
  \E f \in Frames :
    /\ pc[f] = "done"
    /\ \E i, j \in 1..Len(log[f]) :
         /\ i < j
         /\ C21_Priority10(log[f][i].activity) = C21_Priority10(log[f][j].activity)
    /\ \E i, j \in 1..Len(log[f]) :
         /\ i < j
         /\ log[f][j].activity.popularity = Some(0)
         /\ C21_Priority10(log[f][i].activity) < 500 + log[f][j].activity.durationMins

isPrefix(s, t) == Len(s) <= Len(t) /\ SubSeq(t, 1, Len(s)) = s

\* one step of frame f undoes nothing: every block keeps its items where
\* they are, overflow keeps its entries, no overflowed activity turns up in
\* a block, and no remaining capacity grows
keepsDecisions(f) ==
  /\ Len(days'[f]) >= Len(days[f])
  /\ \A d \in 1..Len(days[f]) : \A b \in DayBlock :
       /\ isPrefix(days[f][d].blocks[b], days'[f][d].blocks[b])
       /\ days'[f][d].remainingMins[b] <= days[f][d].remainingMins[b]
  /\ isPrefix(overflow[f], overflow'[f])
  /\ \A d \in 1..Len(days'[f]) : \A i \in 1..Len(dayItems(days'[f][d])) :
       dayItems(days'[f][d])[i].activity \notin Range(overflow[f])

\* C22: no backtracking. In every step of a run an activity that is in a
\* block stays in that day and block at its position, an activity that is
\* in overflow stays there and is not placed, and the remaining capacity of
\* no block increases.
C22_NoBacktracking == [][\A f \in Frames : keepsDecisions(f)]_vars

\* a run that overflowed an activity and afterwards placed two others, one
\* after the other, into the same day
C22_Witness ==
  \E f \in Frames :
    /\ pc[f] = "done"
    /\ \E k \in 1..Len(log[f]) : \E d \in 1..Len(days[f]) :
         LET items == dayItems(days[f][d])
         IN /\ ~log[f][k].placed
            /\ Len(items) >= 2
            /\ \A i \in 1..Len(items) :
                 /\ iterationOf(f, items[i].activity) > k
                 /\ items[i].activity.durationMins > 0

\* the step of frame f put activity a at the end of block b of day d, took
\* its duration from that block and touched nothing else
placedOnlyInto(f, a, d, b) ==
  /\ Len(days'[f]) = Len(days[f])
  /\ days'[f][d].blocks[b] = Append(days[f][d].blocks[b], [activity |-> a, block |-> b])
  /\ days'[f][d].remainingMins[b] = days[f][d].remainingMins[b] - a.durationMins
  /\ \A c \in DayBlock \ {b} :
       /\ days'[f][d].blocks[c] = days[f][d].blocks[c]
       /\ days'[f][d].remainingMins[c] = days[f][d].remainingMins[c]
  /\ days'[f][d].dayIndex = days[f][d].dayIndex
  /\ days'[f][d].anchorNeighborhood = days[f][d].anchorNeighborhood
  /\ \A e \in (1..Len(days[f])) \ {d} : days'[f][e] = days[f][e]
  /\ overflow'[f] = overflow[f]

\* the step of frame f left every day alone and put a at the end of overflow
overflowedOnly(f, a) ==
  /\ days'[f] = days[f]
  /\ overflow'[f] = Append(overflow[f], a)

\* C23: processing one activity changes at most one block. A step that
\* processes an activity either appends it to exactly one block of one day,
\* lowering that block's remaining capacity by its duration and leaving
\* every other block, every other day and overflow unchanged (a successful
\* placement), or leaves all days unchanged and appends it to overflow (a
\* failed one).
C23_OneBlockPerActivity ==
  [][\A f \in Frames :
       (pc[f] = "loop" /\ idx'[f] # idx[f]) =>
         LET a == current(f)
         IN IF \E d \in 1..Len(days[f]) : \E b \in DayBlock :
                 days'[f][d].blocks[b] # days[f][d].blocks[b]
            THEN \E d \in 1..Len(days[f]) : \E b \in DayBlock : placedOnlyInto(f, a, d, b)
            ELSE overflowedOnly(f, a)]_vars

\* a run in which an activity of positive duration was placed into a day
\* that already held an item in another block, and another activity failed
\* while some day held items
C23_Witness ==
  \E f \in Frames :
    /\ pc[f] = "done"
    /\ \E k \in 1..Len(log[f]) :
         LET e == log[f][k]
         IN /\ e.placed
            /\ e.activity.durationMins > 0
            /\ dayItems(e.before[e.bestDay]) # <<>>
            /\ \A i \in 1..Len(dayItems(e.before[e.bestDay])) :
                 dayItems(e.before[e.bestDay])[i].block \notin gained(f, k)
    /\ \E k \in 1..Len(log[f]) :
         /\ ~log[f][k].placed
         /\ \E d \in 1..Len(log[f][k].before) : dayItems(log[f][k].before[d]) # <<>>

\* C24: capacity bookkeeping is exact. After every step, in every day and
\* block, remainingMins is the block's initial capacity minus the summed
\* durations of the block's items, and lies between 0 and that capacity.
C24_ExactBookkeeping ==
  \A f \in Frames : \A d \in 1..Len(days[f]) : \A b \in DayBlock :
    LET day == days[f][d]
    IN /\ day.remainingMins[b] = InitialCapacity[b] - blockSum(day.blocks[b])
       /\ 0 <= day.remainingMins[b]
       /\ day.remainingMins[b] <= InitialCapacity[b]

\* a returned day with one block used to the minute, one partly used and
\* one untouched
C24_Witness ==
  \E f \in Frames : \E d \in 1..Len(days[f]) :
    LET day == days[f][d]
    IN /\ pc[f] = "done"
       /\ \E b \in DayBlock : day.remainingMins[b] = 0
       /\ \E b \in DayBlock :
            0 < day.remainingMins[b] /\ day.remainingMins[b] < InitialCapacity[b]
       /\ \E b \in DayBlock :
            day.blocks[b] = <<>> /\ day.remainingMins[b] = InitialCapacity[b]

storedDaysCounts ==
  {requests[i].value.config.daysCount :
     i \in {j \in 1..Len(requests) : requests[j].op = "setItem"}}
  \cup (IF storage = Absent THEN {} ELSE {storage[1].config.daysCount})

\* C27: from the store's initial state, with storage written only by
\* persist, config.daysCount is always 2, 3 or 4, whatever number
\* setDaysCount is given, and so is every daysCount persist stores for a
\* later hydrate; regenerate therefore never calls buildItinerary with a
\* daysCount below 1, and the itinerary has as many days as config says.
C27_DaysCountClamped ==
  /\ config.daysCount \in {2, 3, 4}
  /\ storedDaysCounts \subseteq {2, 3, 4}
  /\ itinerary # <<>> => Len(itinerary) \in {2, 3, 4}

\* the day count went down to the floor, was stored, and then up to the
\* ceiling, where regenerate built four days
C27_Witness ==
  /\ config.daysCount = 4
  /\ Len(itinerary) = 4
  /\ storage # Absent
  /\ storage[1].config.daysCount = 2

\* what regenerate builds from a deck, a set of added ids and a day count:
\* the builder's result for the added deck activities in deck order
builtFrom(dk, added, n) == buildItinerary(selectedOf(dk, added), n)

\* C28: for a given deck and daysCount the store's itinerary and overflow
\* depend only on the set addedIds, not on the order of the swipeAdd and
\* removeFromTrip calls that produced it: once the itinerary has been built
\* (after one such call or more) it is, in every state, the builder's result
\* for the added deck activities taken in deck order.
C28_OrderIndependent ==
  itinerary # <<>> =>
    /\ itinerary = builtFrom(deck, addedIds, config.daysCount).days
    /\ tripOverflow = builtFrom(deck, addedIds, config.daysCount).overflow

\* two deck activities were added one after the other (storage still holds
\* the state after the first add) and both are in blocks of the itinerary
C28_Witness ==
  /\ Cardinality(addedDeckIds) = 2
  /\ blockIds = addedDeckIds
  /\ storage # Absent
  /\ Cardinality(arrayToSet(storage[1].addedIds)) = 1

oncePerActivity(f) ==
  /\ idx[f] = Len(log[f]) + 1
  /\ Len(log[f]) <= Len(selected)
  /\ \A j, k \in 1..Len(log[f]) : log[f][j].activity = log[f][k].activity => j = k
  /\ processed(f) \subseteq Range(selected)

\* how far frame f has come: 0 before the call, one more for the setup and
\* for every loop iteration, and one more for the return
progress(f) ==
  IF pc[f] = "idle" THEN 0
  ELSE 1 + Len(log[f]) + (IF pc[f] = "done" THEN 1 ELSE 0)

\* frame f is where a call that runs to completion can be: it has not
\* thrown, the activity the loop is at has a day to be tried on, and when
\* the call has returned it has processed every input activity
onCourse(f) ==
  /\ pc[f] # "threw"
  /\ oncePerActivity(f)
  /\ progress(f) <= Len(selected) + 2
  /\ inLoop(f) => pickBestDay(days[f], current(f)) # 0
  /\ pc[f] = "done" =>
       /\ progress(f) = Len(selected) + 2
       /\ processed(f) = Range(selected)

\* C30: for every activity list and every daysCount >= 1 a call runs to
\* completion. It never throws, every loop iteration has a day to try, and
\* every step of the call moves it one forward on a scale that ends at the
\* return, after one setup and one iteration per activity; when it returns
\* it has made exactly one day selection and one placement attempt for
\* each input activity, none processed twice and none skipped.
C30_RunsToCompletion ==
  [][\A f \in Frames :
       daysCount >= 1 =>
         /\ onCourse(f) /\ onCourse(f)'
         /\ \/ progress(f)' = progress(f) + 1
            \/ <<pc[f], days[f], sorted[f], overflow[f], idx[f], log[f]>>'
                 = <<pc[f], days[f], sorted[f], overflow[f], idx[f], log[f]>>]_vars

\* a returned call over the longest list, with placements and a failed
\* attempt among its iterations
C30_Witness ==
  \E f \in Frames :
    /\ pc[f] = "done" /\ daysCount >= 1
    /\ Len(log[f]) = MaxActs
    /\ \E j, k \in 1..Len(log[f]) : log[f][j].placed /\ ~log[f][k].placed
====
